---- MODULE Spec2Model ----
(***************************************************************************)
(* foo_dsp_speedy: the dsp_speedy adapter of src/src/dsp_speedy.cpp as a   *)
(* state machine.  The Sonic/Speedy engine is an external library; it is   *)
(* modelled at its call sites as a nondeterministic collaborator: create   *)
(* may fail, write may be rejected, read returns any count in 0..max.      *)
(*                                                                         *)
(* Floating point samples are fixed-point integers in units of 1e-4, so    *)
(* 1.0 is 10000 (products stay inside TLC's 32-bit integers).  Parameter   *)
(* Record multipliers are in units of 1e-2, so 1.0f is 100.                *)
(***************************************************************************)
EXTENDS Integers, Sequences, FiniteSets, TLC

(* ------------------------------ bounds -------------------------------- *)
\* largest sample count (frames) of a host buffer
MaxSamples == 1
\* engine instances that may be created in one behaviour
MaxEngines == 2
\* most frames one engine read hands back in the model
MaxRead == 2
\* period of the marker sequence the engine's output stream carries
TagPeriod == 3
\* input samples of the conversion run from -MaxCodec to MaxCodec steps
MaxCodec == 40
\* bytes a preset payload may carry beyond the fixed size
MaxExtra == 1

(* ------------------------- program constants -------------------------- *)
kDefaultSpeed == 100
kDefaultPitch == 100
kDefaultRate == 100
kDefaultVolume == 100
kDefaultNonlinear == FALSE
kDefaultNonlinearFactor == 100
\* 32767.0f of the sample conversions
FixedScale == 32767
FixedMax == 32767
FixedMin == -32768
\* "Allow for slowdown": max_samples = sample_count * 4
DrainFactor == 4
\* frames requested per read in flush_remaining
FlushFrames == 4096
\* one unit of the float sample domain: 1.0 == 10000
One == 10000
\* sizeof(float), sizeof(bool) and the number of floats in a preset
SizeofFloat == 4
SizeofBool == 1
PresetFloats == 5
\* the trackbar ranges of the dialog, in hundredths
SpeedMin == 25
SpeedMax == 400
PitchMin == 50
PitchMax == 200
SliderReset == 100
\* get_latency's constants, in milliseconds
BaseLatency == 20
LookaheadLatency == 120
nullptr == 0

(* --------------------------- input domains ---------------------------- *)
\* <<sample rate, channel count, channel layout mask>>
\* neighbours differ in the rate only, the layout only, the channel count only
Formats == { <<44100, 1, 4>>, <<48000, 1, 4>>, <<48000, 1, 1>>, <<48000, 2, 1>> }
\* host sample values: inside [-1, 1] and outside it on either side
InVals == << 4000, -15000, 12500, -10000 >>

\* the sample data of a buffer: n values of InVals in rotation from the k-th
SampleData(n, k) == [i \in 1..n |-> InVals[((i + k - 2) % Len(InVals)) + 1]]

\* audio_chunk: interleaved data tagged with count, rate, channels, layout
Chunks == { [data |-> SampleData(n * f[2], IF n = 0 THEN 1 ELSE k),
             sample_count |-> n, srate |-> f[1],
             channels |-> f[2], channel_config |-> f[3]]
            : f \in Formats, n \in 0..MaxSamples, k \in 1..2 }

NoChunk == [data |-> <<>>, sample_count |-> 0, srate |-> 0, channels |-> 0,
            channel_config |-> 0]

FmtOf(c) == <<c.srate, c.channels, c.channel_config>>

(* -------------------------- Parameter Record -------------------------- *)
\* dsp_speedy_config::dsp_speedy_config()
DefaultConfig == [speed |-> kDefaultSpeed, pitch |-> kDefaultPitch,
                  rate |-> kDefaultRate, volume |-> kDefaultVolume,
                  nonlinear_enabled |-> kDefaultNonlinear,
                  nonlinear_factor |-> kDefaultNonlinearFactor]

\* the records an adapter is constructed with (parse_preset of the preset)
Configs == { DefaultConfig,
             [DefaultConfig EXCEPT !.nonlinear_factor = 200],
             [DefaultConfig EXCEPT !.speed = 150],
             [DefaultConfig EXCEPT !.nonlinear_enabled = TRUE,
                                   !.nonlinear_factor = 200] }

\* a plausible slip: nonlinear_factor takes part in the comparison
is_default_with_factor(cfg) ==
    /\ cfg.speed = kDefaultSpeed
    /\ cfg.pitch = kDefaultPitch
    /\ cfg.rate = kDefaultRate
    /\ cfg.volume = kDefaultVolume
    /\ cfg.nonlinear_enabled = kDefaultNonlinear
    /\ cfg.nonlinear_factor = kDefaultNonlinearFactor

\* the slip of leaving nonlinear_enabled out of the comparison
is_default_without_nonlinear(cfg) ==
    /\ cfg.speed = kDefaultSpeed
    /\ cfg.pitch = kDefaultPitch
    /\ cfg.rate = kDefaultRate
    /\ cfg.volume = kDefaultVolume

\* dsp_speedy_config::is_default
is_default(cfg) ==
    /\ cfg.speed = kDefaultSpeed
    /\ cfg.pitch = kDefaultPitch
    /\ cfg.rate = kDefaultRate
    /\ cfg.volume = kDefaultVolume
    /\ cfg.nonlinear_enabled = kDefaultNonlinear

(* --------------------------- Parameter Store -------------------------- *)
\* A float field is held as a whole number of hundredths (1.0f is 100).  Its
\* object representation, which make_preset and parse_preset copy byte by
\* byte, is modelled as the four little-endian bytes of that number in
\* two's complement.
FloatBytes(f) ==
    LET u == IF f >= 0 THEN f ELSE (f + 2^30) + 2^30
    IN  << u % 256, (u \div 256) % 256, (u \div 65536) % 256,
           (u \div 2^24) + (IF f >= 0 THEN 0 ELSE 128) >>

BytesFloat(b) ==
    LET low == b[1] + 256 * b[2] + 65536 * b[3]
    IN  IF b[4] < 128 THEN low + 2^24 * b[4]
        ELSE ((low + 2^24 * (b[4] - 128)) - 2^30) - 2^30

\* the byte a bool is stored as
BoolByte(b) == IF b THEN 1 ELSE 0

\* reading a byte as a bool: a byte other than 0 and 1 is no value of bool,
\* and what the read yields (ub) is up to the build
ByteBool(x, ub) == IF x = 0 THEN FALSE ELSE IF x = 1 THEN TRUE ELSE ub

g_dsp_speedy_guid == "speedy"
ForeignGuid == "foreign"

\* sizeof(float) * 5 + sizeof(bool)
PresetSize == SizeofFloat * PresetFloats + SizeofBool

\* the slip of laying the record out with speed and pitch exchanged
make_preset_swapped(config) ==
    [owner |-> g_dsp_speedy_guid,
     data |-> FloatBytes(config.pitch) \o FloatBytes(config.speed)
              \o FloatBytes(config.rate) \o FloatBytes(config.volume)
              \o FloatBytes(config.nonlinear_factor)
              \o <<BoolByte(config.nonlinear_enabled)>>]

\* make_preset: the owner and the 21-byte payload
make_preset(config) ==
    [owner |-> g_dsp_speedy_guid,
     data |-> FloatBytes(config.speed) \o FloatBytes(config.pitch)
              \o FloatBytes(config.rate) \o FloatBytes(config.volume)
              \o FloatBytes(config.nonlinear_factor)
              \o <<BoolByte(config.nonlinear_enabled)>>]

\* the slip of taking any owner for this adapter's
OwnerAcceptedAny(owner) == owner = owner

\* parse_preset: the owner test
OwnerAccepted(owner) == owner = g_dsp_speedy_guid

\* the size test as "equals the fixed size"
SizeAcceptedExact(size) == size = PresetSize

\* parse_preset: the size test
SizeAccepted(size) == size >= PresetSize

\* floats[i] of the payload
FloatAt(data, i) ==
    BytesFloat(SubSeq(data, SizeofFloat * i + 1, SizeofFloat * (i + 1)))

\* parse_preset: the record it leaves in config; ub is what reading a byte
\* that is neither 0 nor 1 as a bool yields
parse_preset(preset, ub) ==
    IF ~OwnerAccepted(preset.owner) THEN DefaultConfig
    ELSE IF SizeAccepted(Len(preset.data))
         THEN [speed |-> FloatAt(preset.data, 0),
               pitch |-> FloatAt(preset.data, 1),
               rate |-> FloatAt(preset.data, 2),
               volume |-> FloatAt(preset.data, 3),
               nonlinear_factor |-> FloatAt(preset.data, 4),
               nonlinear_enabled |->
                   ByteBool(preset.data[SizeofFloat * PresetFloats + 1], ub)]
         ELSE DefaultConfig

\* the outcomes of the bool read that parse_preset can make on a preset
BoolOutcomes(preset) ==
    IF /\ OwnerAccepted(preset.owner)
       /\ SizeAccepted(Len(preset.data))
       /\ preset.data[SizeofFloat * PresetFloats + 1] > 1
    THEN BOOLEAN ELSE {FALSE}

\* records whose bytes the host may hand over in a preset
BlobRecords == { DefaultConfig,
                 [DefaultConfig EXCEPT !.speed = 150,
                                       !.nonlinear_enabled = TRUE,
                                       !.nonlinear_factor = 200],
                 [DefaultConfig EXCEPT !.speed = 0, !.pitch = -50] }

PadByte == 7
PayloadSizes == {0, PresetSize - 1} \cup (PresetSize..(PresetSize + MaxExtra))
Payload(r, n) ==
    SubSeq(make_preset(r).data \o [i \in 1..MaxExtra |-> PadByte], 1, n)

\* the presets the host may hold: either owner, payloads shorter than, equal
\* to and longer than the fixed size, and one whose bool byte is 2
Blobs ==
    { [owner |-> o, data |-> Payload(r, n)] :
        o \in {g_dsp_speedy_guid, ForeignGuid}, r \in BlobRecords,
        n \in PayloadSizes }
    \cup { [owner |-> g_dsp_speedy_guid,
            data |-> SubSeq(make_preset(DefaultConfig).data, 1, PresetSize - 1)
                     \o <<2>>] }

\* TBM_SETPOS: the trackbar keeps its position inside its range
TrackbarPos(f, lo, hi) == IF f > hi THEN hi ELSE IF f < lo THEN lo ELSE f

\* positions the user drags a slider to
SpeedStops == {SpeedMin, SpeedMax}
PitchStops == {PitchMin, PitchMax}

(* ---------------------------- Sample Codec ---------------------------- *)
\* C++ float-to-integer conversion truncates toward zero
TruncDiv(a, b) == IF a >= 0 THEN a \div b ELSE -((-a) \div b)

Clamp(x, lo, hi) == IF x > hi THEN hi ELSE IF x < lo THEN lo ELSE x

\* the slip of converting without the two clamps: the value wraps to 16 bits
to_fixed_wrapping(f) ==
    ((TruncDiv(f * FixedScale, One) + 32768) % 65536) - 32768

\* on_chunk: sample * 32767.0f, clamp to [-32768, 32767], static_cast<short>
to_fixed(f) == TruncDiv(Clamp(f * FixedScale, FixedMin * One, FixedMax * One), One)

\* on_chunk: static_cast<audio_sample>(s) / 32767.0
to_float(s) == TruncDiv(s * One, FixedScale)

\* input samples of the conversion: a grid over [-2.0, 2.0], the values next
\* to 0, 1.0 and -1.0, and a NaN
CodecStep == 500
CodecVals ==
    { k * CodecStep : k \in (-MaxCodec)..MaxCodec }
    \cup { 1, -1, 3, -3, 9999, 10001, -9999, -10001, 10003, -10003, 10004,
           -10004, 60000, -60000 }
CodecInputs ==
    { [nan |-> FALSE, val |-> v] : v \in CodecVals }
    \cup { [nan |-> TRUE, val |-> 0] }

\* static_cast<short> of a NaN is undefined: some short is stored
UbShorts == {FixedMin, -1, 0, 1, FixedMax}

\* what m_input_buffer[i] may hold after the loop body ran on input[i]
to_fixed_outcomes(x) == IF x.nan THEN UbShorts ELSE {to_fixed(x.val)}

NoSample == [nan |-> FALSE, val |-> 0]
\* no element of m_input_buffer has been written
NoFixed == 65536

ToFixedSeq(s) == [i \in 1..Len(s) |-> to_fixed(s[i])]
ToFloatSeq(s) == [i \in 1..Len(s) |-> to_float(s[i])]

(* --------------------------- working buffers -------------------------- *)
Min(a, b) == IF a < b THEN a ELSE b
Max(a, b) == IF a > b THEN a ELSE b

\* m_output_buffer, a std::vector<short>, as its length and the elements
\* written since the last resize().  resize() keeps old elements and
\* zero-fills new ones: whatever an element held before the current call is
\* a leftover the code never reads, kept as the one value Leftover.
Leftover == -1
EmptyVec == [len |-> 0, head |-> <<>>]

VecAt(v, i) == IF i <= Len(v.head) THEN v.head[i] ELSE Leftover

\* std::vector::resize(n)
VecResize(v, n) == [len |-> n, head |-> <<>>]

\* store the elements of s at 0-based offset off (the engine's read target)
VecWrite(v, off, s) ==
    IF Len(s) = 0 THEN v
    ELSE [len |-> v.len,
          head |-> [i \in 1..Max(Len(v.head), off + Len(s)) |->
                      IF i > off /\ i <= off + Len(s) THEN s[i - off]
                      ELSE VecAt(v, i)]]

VecPrefix(v, n) == [i \in 1..n |-> VecAt(v, i)]

Zeros(n) == [i \in 1..n |-> 0]

(* ------------------------------- state -------------------------------- *)
VARIABLES
    m_config,           \* dsp_speedy_config of the adapter
    m_stream,           \* sonicStream: nullptr or the id of an engine instance
    m_sample_rate,      \* recorded format of the bound session
    m_channels,
    m_channel_config,
    m_output_buffer,    \* std::vector<short>, the engine's read target
    chunk,              \* the host's audio_chunk, as the adapter leaves it
    pc,                 \* "idle", "drain" (on_chunk's read loop), "returned"
                        \* (on_chunk has returned, the host holds the chunk),
                        \* "eop_drain" (flush_remaining's loop), "destroyed"
    max_samples,        \* on_chunk locals
    total_read,
    samples_read,       \* result of the latest sonicReadShortFromStream
    engines,            \* every engine instance ever created
    out_pos,            \* position in the engine's output marker sequence
    chunk_in,           \* the chunk as on_chunk received it
    last_op,            \* the operation the host called last
    call,               \* what the last on_chunk did with the engine
    last_fmt,           \* format of the latest buffer on_chunk was given
    last_stream,        \* engine the latest on_chunk left bound
    latency,            \* what get_latency returned, if it was the last call
    preset,             \* the dsp_preset the host holds
    dialog_open,        \* the configuration dialog is shown
    config,             \* DialogData::config
    speed_pos,          \* position of the speed and the pitch trackbar
    pitch_pos,
    codec_sample,       \* input[i] of the conversion loop
    codec_fixed         \* m_input_buffer[i]

vars == <<m_config, m_stream, m_sample_rate, m_channels, m_channel_config,
          m_output_buffer, chunk, pc,
          max_samples, total_read, samples_read, engines, out_pos, chunk_in, last_op, call,
          last_fmt, last_stream, latency, preset, dialog_open, config,
          speed_pos, pitch_pos, codec_sample, codec_fixed>>

\* one round of on_chunk's conversion loop
codec == <<codec_sample, codec_fixed>>

\* the Parameter Store outside the adapter
store == <<preset, dialog_open, config, speed_pos, pitch_pos>>
\* the adapter's session and the model's record of the calls on it
session == <<m_stream, m_sample_rate, m_channels, m_channel_config,
             m_output_buffer, chunk, pc, max_samples, total_read,
             samples_read, engines, out_pos, chunk_in, call, last_fmt,
             last_stream, latency>>

adapter == <<m_config, m_stream, m_sample_rate, m_channels, m_channel_config>>
locals == <<max_samples, total_read, samples_read>>

(* ------------------------------- engine ------------------------------- *)
EngineIds == 1..MaxEngines

NoEngine == [st |-> "none", srate |-> 0, channels |-> 0, speed |-> 0,
             pitch |-> 0, rate |-> 0, volume |-> 0, nonlinear |-> 0,
             flushed |-> FALSE, for_fmt |-> <<>>]

\* id the next sonicCreateStream would hand out
NextId(E) == Cardinality({ i \in EngineIds : E[i].st # "none" }) + 1

\* init_stream: sonicCreateStream succeeded, settings applied from m_config
NewEngine(sample_rate, channels, cfg, fmt) ==
    [st |-> "live", srate |-> sample_rate, channels |-> channels,
     speed |-> cfg.speed, pitch |-> cfg.pitch, rate |-> cfg.rate,
     volume |-> cfg.volume,
     nonlinear |-> IF cfg.nonlinear_enabled THEN cfg.nonlinear_factor ELSE 0,
     flushed |-> FALSE, for_fmt |-> fmt]

\* cleanup_stream: sonicDestroyStream when m_stream is set; destroying an
\* instance that is not live is recorded as such
cleanup_stream(s, E) ==
    IF s # nullptr
    THEN [E EXCEPT ![s] = [NoEngine EXCEPT !.st = IF E[s].st = "live"
                                                  THEN "destroyed"
                                                  ELSE "destroyed_twice"]]
    ELSE E

\* the slip of leaving the handle in place after sonicDestroyStream
dangling_stream(s) == s

\* cleanup_stream: m_stream after it
cleared_stream(s) == nullptr

\* the n shorts the engine hands out next: its output carries a marker sequence
EngineTag(q) == 8191 * ((q % TagPeriod) + 1) - 16384
EngineOut(p, n) == [i \in 1..n |-> EngineTag(p + i - 1)]

\* no get_latency result is held
NoLatency == -1

NoCall == [entry_stream |-> nullptr, destroyed |-> nullptr,
           create_attempt |-> FALSE, create_args |-> <<>>, created |-> nullptr,
           written |-> nullptr, wrote |-> <<>>, write_ok |-> FALSE,
           reads |-> <<>>,
           pos_reads |-> 0, after |-> "none", prev_fmt |-> <<>>,
           prev_stream |-> nullptr, ret |-> "none"]

(* -------------------------------- Init -------------------------------- *)
\* dsp_speedy::dsp_speedy
Init ==
    /\ m_config \in Configs
    /\ m_stream = nullptr
    /\ m_sample_rate = 0
    /\ m_channels = 0
    /\ m_channel_config = 0
    /\ m_output_buffer = EmptyVec
    /\ chunk = NoChunk
    /\ pc = "idle"
    /\ max_samples = 0
    /\ total_read = 0
    /\ samples_read = 0
    /\ engines = [i \in EngineIds |-> NoEngine]
    /\ out_pos = 0
    /\ chunk_in = NoChunk
    /\ last_op = "ctor"
    /\ call = NoCall
    /\ last_fmt = <<>>
    /\ last_stream = nullptr
    /\ latency = NoLatency
    /\ preset = make_preset(m_config)
    /\ dialog_open = FALSE
    /\ config = DefaultConfig
    /\ speed_pos = 0
    /\ pitch_pos = 0
    /\ codec_sample = NoSample
    /\ codec_fixed = NoFixed

(* ------------------------------ on_chunk ------------------------------ *)
\* the slip of leaving the channel layout out of the comparison
FormatChangedNoLayout(c) ==
    c.srate # m_sample_rate \/ c.channels # m_channels

\* the slip of comparing the sample rate alone
FormatChangedRateOnly(c) == c.srate # m_sample_rate

\* on_chunk: "Check if format changed"
FormatChanged(c) ==
    \/ c.srate # m_sample_rate
    \/ c.channels # m_channels
    \/ c.channel_config # m_channel_config

\* audio_chunk::set_data(data, count, channels, srate, channel_config)
set_data(data, count, channels, srate, channel_config) ==
    [data |-> data, sample_count |-> count, srate |-> srate,
     channels |-> channels, channel_config |-> channel_config]

\* the slip of a cap one frame too large
MaxSamplesForPlusOne(sample_count) == sample_count * DrainFactor + 1

\* int max_samples = sample_count * 4
MaxSamplesFor(sample_count) == sample_count * DrainFactor

\* failing closed: the chunk is emptied when the engine is unusable
FailClosed(c) == set_data(<<>>, 0, c.channels, c.srate, c.channel_config)

\* "return true; // Pass through on error": the chunk is not touched
FailOpen(c) == c

\* on_chunk up to and including sonicWriteShortToStream
OnChunk ==
    /\ pc = "idle"
    /\ UNCHANGED <<store, codec>>
    /\ latency' = NoLatency
    /\ \E c \in Chunks, createOk \in BOOLEAN, writeOk \in BOOLEAN :
        \* an outcome is drawn only where the engine is asked
        /\ (is_default(m_config) \/ ~FormatChanged(c)) => createOk
        /\ (is_default(m_config) \/ (FormatChanged(c) /\ ~createOk)
              \/ (~FormatChanged(c) /\ m_stream = nullptr)) => writeOk
        /\ LET changed == ~is_default(m_config) /\ FormatChanged(c)
               E1 == IF changed THEN cleanup_stream(m_stream, engines) ELSE engines
               id == NextId(engines)
               \* sonicCreateStream may return NULL, and does once
               \* MaxEngines instances have been handed out
               created == changed /\ createOk /\ id <= MaxEngines
               E2 == IF created
                     THEN [E1 EXCEPT ![id] = NewEngine(c.srate, c.channels,
                                                        m_config, FmtOf(c))]
                     ELSE E1
               s2 == IF changed THEN (IF created THEN id ELSE nullptr) ELSE m_stream
               toWrite == ~is_default(m_config) /\ s2 # nullptr
               log == [NoCall EXCEPT
                         !.entry_stream = m_stream,
                         !.destroyed = IF changed THEN m_stream ELSE nullptr,
                         !.create_attempt = changed,
                         !.create_args = IF changed THEN <<c.srate, c.channels>>
                                         ELSE <<>>,
                         !.created = IF created THEN id ELSE nullptr,
                         !.written = IF toWrite THEN s2 ELSE nullptr,
                         !.wrote = IF toWrite THEN ToFixedSeq(c.data) ELSE <<>>,
                         !.write_ok = toWrite /\ writeOk,
                         !.after = last_op,
                         !.prev_fmt = last_fmt,
                         !.prev_stream = last_stream,
                         !.ret = IF toWrite /\ writeOk THEN "none" ELSE "true"]
           IN  /\ chunk_in' = c
               /\ chunk' = IF (changed /\ ~created) \/ (toWrite /\ ~writeOk)
                           THEN FailOpen(c) ELSE c
               /\ samples_read' = 0
               /\ last_op' = "on_chunk"
               /\ call' = log
               /\ last_fmt' = FmtOf(c)
               /\ last_stream' = s2
               /\ engines' = E2
               /\ m_stream' = s2
               /\ IF created
                  THEN /\ m_sample_rate' = c.srate
                       /\ m_channels' = c.channels
                       /\ m_channel_config' = c.channel_config
                  ELSE UNCHANGED <<m_sample_rate, m_channels, m_channel_config>>
               /\ IF toWrite /\ writeOk
                  THEN /\ max_samples' = MaxSamplesFor(c.sample_count)
                       /\ m_output_buffer' =
                             VecResize(m_output_buffer,
                                       MaxSamplesFor(c.sample_count) * c.channels)
                       /\ total_read' = 0
                       /\ pc' = "drain"
                  ELSE /\ pc' = "returned"
                       /\ UNCHANGED <<max_samples, m_output_buffer, total_read>>
               /\ UNCHANGED <<m_config, out_pos>>

\* the slip of storing every read at the start of the staging buffer
ReadOffsetZero(total, channels) == 0

\* m_output_buffer.data() + total_read * channels
ReadOffset(total, channels) == total * channels

\* the slip of emitting max_samples frames of silence
SilenceCountMax(sample_count, cap) == cap

\* "No output available yet - output silence": sample_count frames
SilenceCount(sample_count, cap) == sample_count

\* if (total_read >= max_samples) break
LoopDone(total, cap) == total >= cap

\* One sonicReadShortFromStream of on_chunk's loop; the read that ends the
\* loop also runs the code after it (conversion back and set_data).
DrainRead ==
    /\ pc = "drain"
    /\ UNCHANGED <<store, codec>>
    /\ UNCHANGED latency
    /\ \E r \in 0..Min(MaxRead, max_samples - total_read) :
        LET ch == chunk.channels
            got == EngineOut(out_pos, r * ch)
            buf == VecWrite(m_output_buffer, ReadOffset(total_read, ch), got)
            total == total_read + r
            done == r = 0 \/ LoopDone(total, max_samples)
            n0 == SilenceCount(chunk.sample_count, max_samples)
            out == IF total > 0 THEN ToFloatSeq(VecPrefix(buf, total * ch))
                   ELSE Zeros(n0 * ch)
        IN  /\ out_pos' = (out_pos + r * ch) % TagPeriod
            /\ samples_read' = IF done THEN 0 ELSE r
            /\ call' = [call EXCEPT
                          !.reads = call.reads \o got,
                          !.pos_reads = call.pos_reads + (IF r > 0 THEN 1 ELSE 0),
                          !.ret = IF done THEN "true" ELSE "none"]
            /\ IF done
               THEN /\ chunk' = set_data(out, IF total > 0 THEN total ELSE n0,
                                         ch, chunk.srate, chunk.channel_config)
                    /\ pc' = "returned"
                    \* the locals go out of scope; the staging buffer keeps
                    \* its size and holds leftovers
                    /\ max_samples' = 0
                    /\ total_read' = 0
                    /\ m_output_buffer' = VecResize(buf, buf.len)
               ELSE /\ m_output_buffer' = buf
                    /\ total_read' = total
                    /\ UNCHANGED <<chunk, pc, max_samples>>
            /\ UNCHANGED <<adapter, engines,
                           chunk_in, last_op, last_fmt, last_stream>>

\* on_chunk's return: the host takes the chunk back
OnChunkReturn ==
    /\ pc = "returned"
    /\ UNCHANGED <<store, codec>>
    /\ UNCHANGED latency
    /\ pc' = "idle"
    /\ chunk' = NoChunk
    /\ chunk_in' = NoChunk
    /\ call' = NoCall
    /\ UNCHANGED <<adapter, m_output_buffer, locals, engines, out_pos, last_op,
                   last_fmt, last_stream>>

(* ------------------------- the other operations ----------------------- *)
\* the slip of sizing the staging buffer in frames
FlushBufferFrames(channels) == FlushFrames

\* m_output_buffer.resize(4096 * m_channels)
FlushBufferSize(channels) == FlushFrames * channels

\* the slip of reading once instead of looping
EopReadOnce(r) == FALSE

\* do { ... } while (samples_read > 0)
EopLoopAgain(r) == r > 0

\* the slip of leaving the recorded format in place
KeptFormat == <<m_sample_rate, m_channels, m_channel_config>>

\* flush: m_sample_rate = 0; m_channels = 0; m_channel_config = 0
ClearedFormat == <<0, 0, 0>>

\* on_endofplayback -> flush_remaining, up to the first read
OnEndOfPlayback ==
    /\ pc = "idle"
    /\ UNCHANGED <<store, codec>>
    /\ latency' = NoLatency
    /\ last_op' = "on_endofplayback"
    /\ IF m_stream # nullptr
       THEN /\ engines' = [engines EXCEPT ![m_stream].flushed = TRUE]
            /\ m_output_buffer' = VecResize(m_output_buffer,
                                            FlushBufferSize(m_channels))
            /\ pc' = "eop_drain"
       ELSE UNCHANGED <<engines, m_output_buffer, pc>>
    /\ UNCHANGED <<adapter, chunk, chunk_in, call, locals, out_pos, last_fmt,
                   last_stream>>

\* one iteration of flush_remaining's do-while
EopRead ==
    /\ pc = "eop_drain"
    /\ UNCHANGED <<store, codec>>
    /\ UNCHANGED latency
    /\ \E r \in 0..Min(MaxRead, FlushFrames) :
        /\ m_output_buffer' =
              IF r > 0 THEN VecWrite(m_output_buffer, 0,
                                     EngineOut(out_pos, r * m_channels))
              ELSE VecResize(m_output_buffer, m_output_buffer.len)
        /\ out_pos' = (out_pos + r * m_channels) % TagPeriod
        /\ samples_read' = r
        /\ pc' = IF EopLoopAgain(r) THEN "eop_drain" ELSE "idle"
    /\ UNCHANGED <<adapter, chunk, max_samples, total_read, engines, chunk_in, last_op, call, last_fmt, last_stream>>

\* the slip of flushing at a track boundary ("Could flush here if needed")
OnEndOfTrackFlushes ==
    /\ pc = "idle"
    /\ UNCHANGED <<store, codec>>
    /\ latency' = NoLatency
    /\ last_op' = "on_endoftrack"
    /\ engines' = cleanup_stream(m_stream, engines)
    /\ m_stream' = nullptr
    /\ m_sample_rate' = 0
    /\ m_channels' = 0
    /\ m_channel_config' = 0
    /\ UNCHANGED <<m_config, m_output_buffer, chunk, chunk_in, call, locals,
                   pc, out_pos, last_fmt, last_stream>>

\* on_endoftrack: empty body
OnEndOfTrack ==
    /\ pc = "idle"
    /\ UNCHANGED <<store, codec>>
    /\ latency' = NoLatency
    /\ last_op' = "on_endoftrack"
    /\ UNCHANGED <<adapter, chunk, chunk_in, call, m_output_buffer, locals, pc, engines, out_pos, last_fmt,
                   last_stream>>

\* flush
Flush ==
    /\ pc = "idle"
    /\ UNCHANGED <<store, codec>>
    /\ latency' = NoLatency
    /\ last_op' = "flush"
    /\ engines' = cleanup_stream(m_stream, engines)
    /\ m_stream' = cleared_stream(m_stream)
    /\ m_sample_rate' = ClearedFormat[1]
    /\ m_channels' = ClearedFormat[2]
    /\ m_channel_config' = ClearedFormat[3]
    /\ UNCHANGED <<m_config, m_output_buffer, chunk, chunk_in, call, locals,
                   pc, out_pos, last_fmt, last_stream>>

\* ~dsp_speedy
Destructor ==
    /\ pc = "idle"
    /\ UNCHANGED <<store, codec>>
    /\ latency' = NoLatency
    /\ last_op' = "dtor"
    /\ engines' = cleanup_stream(m_stream, engines)
    /\ m_stream' = cleared_stream(m_stream)
    /\ pc' = "destroyed"
    /\ UNCHANGED <<m_config, m_sample_rate, m_channels, m_channel_config,
                   m_output_buffer, chunk, chunk_in, call, locals, out_pos,
                   last_fmt, last_stream>>

(* ----------------------------- get_latency ----------------------------- *)
\* the slip of reporting the base latency with no session bound
get_latency_unguarded ==
    BaseLatency + (IF m_config.nonlinear_enabled THEN LookaheadLatency ELSE 0)

\* get_latency's result, in milliseconds
get_latency ==
    IF m_sample_rate > 0 /\ m_stream # nullptr
    THEN BaseLatency + (IF m_config.nonlinear_enabled THEN LookaheadLatency ELSE 0)
    ELSE 0

\* the host asks for the latency between two handlers
GetLatency ==
    /\ pc = "idle"
    /\ UNCHANGED <<store, codec>>
    /\ latency' = get_latency
    /\ UNCHANGED <<adapter, m_output_buffer, chunk, pc, locals, engines,
                   out_pos, chunk_in, last_op, call, last_fmt, last_stream>>

Next ==
    \/ OnChunk
    \/ DrainRead
    \/ OnChunkReturn
    \/ OnEndOfPlayback
    \/ EopRead
    \/ OnEndOfTrack
    \/ Flush
    \/ Destructor
    \/ GetLatency

Spec == Init /\ [][Next]_vars

\* the host runs a handler it has entered to its end
FairSpec == Spec /\ WF_vars(DrainRead) /\ WF_vars(EopRead)

(* --------------------------- Parameter Store -------------------------- *)
\* the host replaces the preset it holds (a stored configuration, possibly
\* of another component or damaged)
HostLoadsPreset ==
    /\ UNCHANGED codec
    /\ ~dialog_open
    /\ \E p \in Blobs : preset' = p
    /\ last_op' = "load"
    /\ UNCHANGED <<m_config, dialog_open, config, speed_pos, pitch_pos, session>>

\* dsp_speedy::dsp_speedy(preset)
Construct ==
    /\ UNCHANGED codec
    /\ pc = "idle"
    /\ \E ub \in BoolOutcomes(preset) : m_config' = parse_preset(preset, ub)
    /\ m_stream' = nullptr
    /\ m_sample_rate' = 0
    /\ m_channels' = 0
    /\ m_channel_config' = 0
    /\ last_op' = "ctor"
    /\ UNCHANGED <<store, m_output_buffer, chunk, pc, locals, engines, out_pos,
                   chunk_in, call, last_fmt, last_stream, latency>>

\* g_show_config_popup and WM_INITDIALOG
ShowConfigPopup ==
    /\ UNCHANGED codec
    /\ ~dialog_open
    /\ dialog_open' = TRUE
    /\ \E ub \in BoolOutcomes(preset) : config' = parse_preset(preset, ub)
    /\ speed_pos' = TrackbarPos(config'.speed, SpeedMin, SpeedMax)
    /\ pitch_pos' = TrackbarPos(config'.pitch, PitchMin, PitchMax)
    /\ last_op' = "popup"
    /\ UNCHANGED <<m_config, preset, session>>

\* WM_HSCROLL: one trackbar was moved; both positions are read, then
\* UpdatePresetFromDialog
HScroll ==
    /\ UNCHANGED codec
    /\ dialog_open
    /\ \E sp \in SpeedStops \cup {speed_pos}, pp \in PitchStops \cup {pitch_pos} :
        /\ sp = speed_pos \/ pp = pitch_pos
        /\ speed_pos' = sp
        /\ pitch_pos' = pp
        /\ config' = [config EXCEPT !.speed = sp, !.pitch = pp]
    /\ preset' = make_preset(config')
    /\ last_op' = "hscroll"
    /\ UNCHANGED <<m_config, dialog_open, session>>

\* WM_COMMAND IDC_NONLINEAR, then UpdatePresetFromDialog
NonlinearClicked ==
    /\ UNCHANGED codec
    /\ dialog_open
    /\ \E checked \in BOOLEAN :
        config' = [config EXCEPT !.nonlinear_enabled = checked]
    /\ preset' = make_preset(config')
    /\ last_op' = "nonlinear"
    /\ UNCHANGED <<m_config, dialog_open, speed_pos, pitch_pos, session>>

\* WM_COMMAND IDC_RESET, then UpdatePresetFromDialog
ResetClicked ==
    /\ UNCHANGED codec
    /\ dialog_open
    /\ config' = DefaultConfig
    /\ speed_pos' = SliderReset
    /\ pitch_pos' = SliderReset
    /\ preset' = make_preset(config')
    /\ last_op' = "reset"
    /\ UNCHANGED <<m_config, dialog_open, session>>

\* IDOK, IDCANCEL: the dialog and its DialogData go away
EndDialog ==
    /\ UNCHANGED codec
    /\ dialog_open
    /\ dialog_open' = FALSE
    /\ config' = DefaultConfig
    /\ speed_pos' = 0
    /\ pitch_pos' = 0
    /\ last_op' = "enddialog"
    /\ UNCHANGED <<m_config, preset, session>>

PresetNext ==
    \/ HostLoadsPreset
    \/ Construct
    \/ ShowConfigPopup
    \/ HScroll
    \/ NonlinearClicked
    \/ ResetClicked
    \/ EndDialog

\* the Parameter Store on its own: presets, the dialog and construction
PresetSpec == Init /\ [][PresetNext]_vars

(* ---------------------------- Sample Codec ---------------------------- *)
\* the conversion loop of on_chunk reaches an input sample
LoadSample ==
    /\ codec_sample = NoSample \/ codec_fixed # NoFixed
    /\ \E x \in CodecInputs : codec_sample' = x
    /\ codec_fixed' = NoFixed
    /\ UNCHANGED <<m_config, last_op, store, session>>

\* the loop body: scale, clamp, static_cast<short>
ConvertSample ==
    /\ codec_sample # NoSample \/ codec_fixed # NoFixed
    /\ codec_fixed = NoFixed
    /\ codec_fixed' \in to_fixed_outcomes(codec_sample)
    /\ UNCHANGED <<m_config, last_op, store, session, codec_sample>>

CodecNext ==
    \/ LoadSample
    \/ ConvertSample

\* the float-to-fixed conversion on its own
CodecSpec == Init /\ [][CodecNext]_vars

(* ------------------------------- claims ------------------------------- *)
\* the record is at its default values in the sense of is_default()
AtDefaultValues(cfg) ==
    /\ cfg.speed = 100 /\ cfg.pitch = 100 /\ cfg.rate = 100 /\ cfg.volume = 100
    /\ ~cfg.nonlinear_enabled

\* on_chunk has been entered for chunk_in and has not yet handed it back
InOnChunk == pc \in {"drain", "returned"}

SameFormat(a, b) ==
    /\ a.srate = b.srate
    /\ a.channels = b.channels
    /\ a.channel_config = b.channel_config

NoEngineEver == \A i \in EngineIds : engines[i].st = "none"

\* C1: with a Parameter Record at its default values, every on_chunk hands
\* the buffer back exactly as received (samples, count, rate, channels,
\* layout) and no engine instance is ever created, whatever calls came before.
C1_PassThroughIdentity ==
    AtDefaultValues(m_config) =>
        /\ NoEngineEver
        /\ m_stream = nullptr
        /\ pc \notin {"drain", "eop_drain"}
        /\ pc = "returned" => (chunk = chunk_in /\ call.ret = "true")

C1_Witness ==
    /\ AtDefaultValues(m_config)
    /\ m_config.nonlinear_factor # 100
    /\ pc = "returned"
    /\ chunk_in.sample_count > 0
    /\ call.after = "on_endofplayback"
    /\ call.prev_fmt # <<>>
    /\ call.prev_fmt # FmtOf(chunk_in)

\* C2: with a non-default record, when buffer k differs from buffer k-1 in
\* rate, channel count or layout, on_chunk destroys the engine instance it
\* finds and asks for a new one for buffer k's (rate, channels) before any
\* sample of buffer k is written; what is written goes to the instance
\* created in this call, never to the one bound for buffer k-1.
C2_FormatChangeRebuild ==
    (InOnChunk /\ ~AtDefaultValues(m_config)
       /\ call.prev_fmt # <<>> /\ call.prev_fmt # FmtOf(chunk_in)) =>
        /\ call.entry_stream # nullptr =>
              /\ call.destroyed = call.entry_stream
              /\ engines[call.entry_stream].st = "destroyed"
              /\ call.create_attempt
              /\ call.create_args = <<chunk_in.srate, chunk_in.channels>>
        /\ call.written # nullptr =>
              /\ call.written = call.created
              /\ call.written # call.prev_stream
              /\ call.written # call.entry_stream
              /\ engines[call.written].st = "live"
              /\ engines[call.written].for_fmt = FmtOf(chunk_in)
              /\ engines[call.written].srate = chunk_in.srate
              /\ engines[call.written].channels = chunk_in.channels

C2_Witness ==
    /\ pc = "returned"
    /\ ~AtDefaultValues(m_config)
    /\ call.prev_fmt # <<>>
    /\ call.prev_fmt[1] = chunk_in.srate
    /\ call.prev_fmt[2] = chunk_in.channels
    /\ call.prev_fmt[3] # chunk_in.channel_config
    /\ call.entry_stream # nullptr
    /\ call.prev_stream = call.entry_stream
    /\ call.written # nullptr
    /\ Len(call.reads) > 0

CreateFailed == call.create_attempt /\ call.created = nullptr
WriteRejected == call.written # nullptr /\ ~call.write_ok

\* C3: on_chunk returns success on every path, and when engine creation
\* fails or the engine rejects the write the buffer handed back is exactly
\* the buffer received.
C3_FailOpen ==
    pc = "returned" =>
        /\ call.ret = "true"
        /\ (CreateFailed \/ WriteRejected) => chunk = chunk_in

C3_Witness ==
    /\ pc = "returned"
    /\ WriteRejected
    /\ call.created # nullptr
    /\ call.entry_stream # nullptr
    /\ chunk_in.sample_count > 0
    /\ chunk = chunk_in

\* C4: for a buffer of N samples and any engine read behaviour the drain
\* loop accumulates at most 4*N samples, makes at most 4*N reads that return
\* a positive count, stops once 4*N is reached, and never sizes the output
\* staging buffer beyond 4*N*channels.
C4_DrainCap ==
    (InOnChunk /\ call.write_ok) =>
        LET N == chunk_in.sample_count
            ch == chunk_in.channels
        IN  /\ total_read <= 4 * N
            /\ Len(call.reads) <= 4 * N * ch
            /\ call.pos_reads <= 4 * N
            /\ m_output_buffer.len <= 4 * N * ch
            /\ Len(m_output_buffer.head) <= m_output_buffer.len
            /\ (pc = "drain" /\ call.pos_reads > 0) => total_read < 4 * N

C4_Witness ==
    /\ pc = "returned"
    /\ call.write_ok
    /\ chunk_in.sample_count > 0
    /\ chunk_in.channels = 2
    /\ call.pos_reads >= 2
    /\ Len(call.reads) = 4 * chunk_in.sample_count * chunk_in.channels

\* C5: when the engine is bound, the write is accepted and the drain loop
\* reads nothing, on_chunk hands back N frames of zero samples with the
\* input's rate, channel count and layout.
C5_SilenceSubstitution ==
    (pc = "returned" /\ call.write_ok /\ Len(call.reads) = 0) =>
        /\ chunk.sample_count = chunk_in.sample_count
        /\ Len(chunk.data) = chunk_in.sample_count * chunk_in.channels
        /\ \A i \in 1..Len(chunk.data) : chunk.data[i] = 0
        /\ SameFormat(chunk, chunk_in)

C5_Witness ==
    /\ pc = "returned"
    /\ call.write_ok
    /\ Len(call.reads) = 0
    /\ call.created # nullptr
    /\ call.prev_fmt # <<>>
    /\ call.prev_fmt # FmtOf(chunk_in)
    /\ chunk_in.sample_count > 0
    /\ chunk_in.channels = 2
    /\ chunk.data = <<0, 0>>

\* C6: when the drain loop reads K > 0 frames in total, the buffer handed
\* back holds exactly K frames, the samples read from the engine in read
\* order (each divided by 32767), with the input's rate, channels and layout.
C6_DrainedOutput ==
    (pc = "returned" /\ Len(call.reads) > 0) =>
        /\ chunk.sample_count * chunk_in.channels = Len(call.reads)
        /\ Len(chunk.data) = Len(call.reads)
        /\ \A i \in 1..Len(call.reads) :
              chunk.data[i] = to_float(call.reads[i])
        /\ SameFormat(chunk, chunk_in)

C6_Witness ==
    /\ pc = "returned"
    /\ call.pos_reads >= 2
    /\ chunk_in.channels = 2
    /\ chunk.sample_count = 3
    /\ chunk.data[1] # chunk.data[3]

NoLiveEngine == \A i \in EngineIds : engines[i].st # "live"

\* C7: with a non-default record, every buffer that arrives while no engine
\* instance is live makes on_chunk ask for a new engine for that buffer's
\* (rate, channels), after any history.
C7_UnboundAlwaysCreates ==
    (InOnChunk /\ ~AtDefaultValues(m_config) /\ call.entry_stream = nullptr) =>
        /\ call.create_attempt
        /\ call.create_args = <<chunk_in.srate, chunk_in.channels>>

\* C8 as stated: once on_endofplayback has returned no engine instance is
\* live.
C8_EopTearsDown ==
    (last_op = "on_endofplayback" /\ pc = "idle") =>
        (m_stream = nullptr /\ NoLiveEngine)

\* C8, amended: on_endofplayback with a live engine flushes it and reads
\* until a read returns zero, and it does not tear the session down: the
\* same engine instance stays live and the recorded format stays as it was.
C8_EopKeepsSession ==
    [][ /\ (OnEndOfPlayback /\ m_stream # nullptr) =>
              (pc' = "eop_drain" /\ engines'[m_stream].flushed)
        /\ (OnEndOfPlayback /\ m_stream = nullptr) =>
              (pc' = "idle" /\ engines' = engines)
        /\ pc = "eop_drain" =>
              /\ pc' \in {"eop_drain", "idle"}
              /\ (pc' = "idle") => (samples_read' = 0)
        /\ last_op' = "on_endofplayback" =>
              /\ m_stream' = m_stream
              /\ m_sample_rate' = m_sample_rate
              /\ m_channels' = m_channels
              /\ m_channel_config' = m_channel_config
              /\ m_stream # nullptr =>
                    /\ engines[m_stream].st = "live"
                    /\ engines'[m_stream].st = "live"
                    /\ engines'[m_stream].flushed
      ]_vars

C8_Witness ==
    /\ last_op = "on_endofplayback"
    /\ pc = "idle"
    /\ m_stream # nullptr
    /\ engines[m_stream].st = "live"
    /\ engines[m_stream].flushed
    /\ m_output_buffer.len = 4096 * m_channels
    /\ out_pos # 0

\* C9 as stated: the end-of-stream drain terminates for every engine read
\* behaviour.
C9_EopDrainTerminates == (pc = "eop_drain") ~> (pc = "idle")

\* C9, amended: the end-of-stream drain has no cap.  The staging buffer is
\* sized once to 4096 * channels and does not grow, and the loop goes on for
\* as long as reads return a positive count: it ends only at a read that
\* returns zero.
C9_EopDrainUncapped ==
    [][ pc = "eop_drain" =>
          /\ m_output_buffer.len = 4096 * m_channels
          /\ m_output_buffer'.len = m_output_buffer.len
          /\ Len(m_output_buffer'.head) <= m_output_buffer.len
          /\ (samples_read' > 0) => (pc' = "eop_drain")
          /\ (pc' = "eop_drain") => (samples_read' > 0 \/ UNCHANGED vars)
      ]_vars

C9_Witness ==
    /\ pc = "eop_drain"
    /\ samples_read = 2
    /\ m_channels = 2
    /\ Len(m_output_buffer.head) = 4
    /\ m_output_buffer.head[1] # m_output_buffer.head[3]

\* C10: after flush() no engine instance is live and the recorded rate,
\* channel count and layout are cleared; with a non-default record the next
\* buffer asks for a fresh engine even when its format is the one bound
\* before the flush.
C10_FlushForcesReinit ==
    /\ last_op = "flush" =>
          /\ m_stream = nullptr
          /\ NoLiveEngine
          /\ m_sample_rate = 0 /\ m_channels = 0 /\ m_channel_config = 0
    /\ (InOnChunk /\ call.after = "flush" /\ ~AtDefaultValues(m_config)) =>
          /\ call.entry_stream = nullptr
          /\ call.create_attempt
          /\ call.create_args = <<chunk_in.srate, chunk_in.channels>>
          /\ call.created # nullptr => call.created # call.prev_stream

C10_Witness ==
    /\ pc = "returned"
    /\ call.after = "flush"
    /\ ~AtDefaultValues(m_config)
    /\ call.prev_fmt = FmtOf(chunk_in)
    /\ call.prev_stream # nullptr
    /\ call.created # nullptr
    /\ call.write_ok

\* C11: on_endoftrack changes nothing (engine instance, its buffered
\* samples, the recorded format, the Parameter Record), so a buffer of the
\* bound format arriving after a track boundary is written to the same
\* engine instance with no destruction and no creation.
C11_EndOfTrackNoOp ==
    /\ [][ last_op' = "on_endoftrack" =>
             UNCHANGED <<m_config, m_stream, m_sample_rate, m_channels,
                         m_channel_config, m_output_buffer, engines, out_pos,
                         max_samples, total_read, samples_read, pc, chunk,
                         last_fmt, last_stream>> ]_vars
    /\ []( (InOnChunk /\ call.after = "on_endoftrack"
              /\ ~AtDefaultValues(m_config)
              /\ call.entry_stream # nullptr
              /\ call.prev_fmt = FmtOf(chunk_in)) =>
             /\ call.entry_stream = call.prev_stream
             /\ ~call.create_attempt
             /\ call.destroyed = nullptr
             /\ call.written = call.entry_stream
             /\ m_stream = call.entry_stream
             /\ engines[m_stream].st = "live" )

C11_Witness ==
    /\ pc = "returned"
    /\ call.after = "on_endoftrack"
    /\ ~AtDefaultValues(m_config)
    /\ call.entry_stream # nullptr
    /\ call.prev_fmt = FmtOf(chunk_in)
    /\ call.written = call.entry_stream
    /\ Len(call.reads) > 0

\* C12: get_latency returns 0 when no engine session is bound, the base
\* constant when a session is bound and nonlinear_enabled is false, the base
\* plus the lookahead constant when it is true, whatever speed, pitch, rate,
\* volume and nonlinear_factor are; the call changes no state.
C12_LatencyEstimate ==
    [][ latency' # NoLatency =>
          /\ (m_stream = nullptr) => latency' = 0
          /\ (m_stream # nullptr /\ ~m_config.nonlinear_enabled) =>
                 latency' = BaseLatency
          /\ (m_stream # nullptr /\ m_config.nonlinear_enabled) =>
                 latency' = BaseLatency + LookaheadLatency
          /\ UNCHANGED <<m_config, m_stream, m_sample_rate, m_channels,
                         m_channel_config, m_output_buffer, chunk, pc,
                         max_samples, total_read, samples_read, engines,
                         out_pos, last_op>> ]_vars

C12_Witness ==
    /\ latency = BaseLatency + LookaheadLatency
    /\ m_stream # nullptr
    /\ engines[m_stream].st = "live"
    /\ m_config.nonlinear_enabled
    /\ m_config.nonlinear_factor # kDefaultNonlinearFactor

\* C13: parse_preset of the preset make_preset(r) produces is r in all six
\* fields, for every Parameter Record r; an adapter constructed from the
\* preset the dialog published has the dialog's record.
C13_PresetRoundTrip ==
    /\ \A ub \in BOOLEAN :
          /\ parse_preset(make_preset(config), ub) = config
          /\ parse_preset(make_preset(m_config), ub) = m_config
    /\ make_preset(config).owner = g_dsp_speedy_guid
    /\ (last_op = "ctor" /\ preset = make_preset(config)) => m_config = config

C13_Witness ==
    /\ last_op = "ctor"
    /\ dialog_open
    /\ preset = make_preset(config)
    /\ m_config = config
    /\ config.nonlinear_enabled
    /\ config.speed # config.pitch
    /\ config.pitch < 0

\* a preset parse_preset answers with the default record: a foreign owner, or
\* a payload shorter than the fixed size
Rejected(p) == p.owner # g_dsp_speedy_guid \/ Len(p.data) < PresetSize

\* C14: deserializing a blob with a foreign owner, or with a payload shorter
\* than five floats and one bool byte, yields the default Parameter Record
\* without reading the payload; an adapter constructed from such a blob has
\* a record for which is_default() holds and no engine, i.e. it is in
\* pass-through mode.
C14_DefaultsOnCorruption ==
    /\ \A p \in Blobs : Rejected(p) =>
          /\ BoolOutcomes(p) = {FALSE}
          /\ parse_preset(p, FALSE) = DefaultConfig
    /\ (last_op = "ctor" /\ Rejected(preset)) =>
          /\ m_config = DefaultConfig
          /\ is_default(m_config)
          /\ m_stream = nullptr
    /\ (last_op = "popup" /\ Rejected(preset)) => config = DefaultConfig

C14_Witness ==
    /\ last_op = "ctor"
    /\ preset.owner = ForeignGuid
    /\ Len(preset.data) = PresetSize
    /\ FloatAt(preset.data, 0) # kDefaultSpeed
    /\ m_config = DefaultConfig
    /\ is_default(m_config)

\* C15 as stated: a preset with the matching owner is accepted only when
\* its payload size equals the fixed size; a shorter or a longer payload
\* yields the default Parameter Record.
C15_ExactSizeOnly ==
    (last_op = "ctor" /\ preset.owner = g_dsp_speedy_guid
       /\ Len(preset.data) # PresetSize) => m_config = DefaultConfig

\* C15: a preset with the matching owner is accepted when its payload is at
\* least the fixed size: the five floats and the bool are read from its
\* first 21 bytes and further bytes are ignored; only a shorter payload
\* yields the default Parameter Record.
C15_AtLeastFixedSize ==
    (last_op = "ctor" /\ preset.owner = g_dsp_speedy_guid) =>
        /\ Len(preset.data) < PresetSize => m_config = DefaultConfig
        /\ Len(preset.data) >= PresetSize =>
              /\ m_config.speed = FloatAt(preset.data, 0)
              /\ m_config.pitch = FloatAt(preset.data, 1)
              /\ m_config.rate = FloatAt(preset.data, 2)
              /\ m_config.volume = FloatAt(preset.data, 3)
              /\ m_config.nonlinear_factor = FloatAt(preset.data, 4)
              /\ preset.data[PresetSize] \in {0, 1} =>
                    m_config.nonlinear_enabled = (preset.data[PresetSize] = 1)

C15_Witness ==
    /\ last_op = "ctor"
    /\ preset.owner = g_dsp_speedy_guid
    /\ Len(preset.data) > PresetSize
    /\ m_config.speed = 150
    /\ m_config.nonlinear_enabled
    /\ m_config # DefaultConfig

\* the five multiplier fields of a record are strictly positive
Positive(cfg) ==
    /\ cfg.speed > 0
    /\ cfg.pitch > 0
    /\ cfg.rate > 0
    /\ cfg.volume > 0
    /\ cfg.nonlinear_factor > 0

\* C16: in every reachable state of a Parameter Record (the adapter's and
\* the dialog's), after default construction, deserialization of any blob
\* with the matching owner and a sufficient size, slider and checkbox
\* updates and reset, speed, pitch, rate, volume and nonlinear_factor are
\* strictly positive.
C16_FieldsPositive ==
    /\ Positive(m_config)
    /\ Positive(config)

\* records that differ from the default in one field, and the records the
\* adapter and the presets are given
ProbeRecords ==
    Configs \cup BlobRecords
    \cup { [DefaultConfig EXCEPT !.speed = v] : v \in {50, 101} }
    \cup { [DefaultConfig EXCEPT !.pitch = v] : v \in {50, 101} }
    \cup { [DefaultConfig EXCEPT !.rate = v] : v \in {50, 101} }
    \cup { [DefaultConfig EXCEPT !.volume = v] : v \in {50, 101} }
    \cup { [DefaultConfig EXCEPT !.nonlinear_enabled = TRUE] }

\* C17: is_default() holds exactly when speed, pitch, rate and volume are
\* 1.0 and nonlinear_enabled is false, whatever nonlinear_factor is; an
\* adapter whose record has a non-default nonlinear_factor and
\* nonlinear_enabled false hands every buffer back untouched and never
\* asks for an engine.
C17_IsDefaultIgnoresFactor ==
    /\ \A c \in ProbeRecords, f \in {50, kDefaultNonlinearFactor, 200} :
          is_default([c EXCEPT !.nonlinear_factor = f]) <=> AtDefaultValues(c)
    /\ is_default(m_config) <=> AtDefaultValues(m_config)
    /\ (pc = "returned" /\ ~m_config.nonlinear_enabled
          /\ m_config.speed = kDefaultSpeed /\ m_config.pitch = kDefaultPitch
          /\ m_config.rate = kDefaultRate /\ m_config.volume = kDefaultVolume
          /\ m_config.nonlinear_factor # kDefaultNonlinearFactor) =>
          /\ chunk = chunk_in
          /\ ~call.create_attempt
          /\ call.written = nullptr
          /\ call.reads = <<>>
          /\ call.ret = "true"
          /\ NoEngineEver

C17_Witness ==
    /\ pc = "returned"
    /\ is_default(m_config)
    /\ m_config.nonlinear_factor = 200
    /\ chunk_in.sample_count > 0
    /\ chunk = chunk_in
    /\ call.after = "on_chunk"
    /\ last_fmt = FmtOf(chunk_in)

\* C18: the float-to-fixed conversion saturates and never wraps: an input
\* above 1.0 converts to 32767, an input below -1.0 to -32767 or -32768,
\* and the result for any input lies in [-32768, 32767]; the result of a
\* positive input is never negative and the result of a negative input is
\* never positive.
C18_Saturation ==
    codec_fixed # NoFixed =>
        /\ codec_fixed >= FixedMin
        /\ codec_fixed <= FixedMax
        /\ ~codec_sample.nan =>
              /\ codec_sample.val > One => codec_fixed = 32767
              /\ codec_sample.val < -One => codec_fixed \in {-32767, -32768}
              /\ codec_sample.val >= 0 => codec_fixed >= 0
              /\ codec_sample.val <= 0 => codec_fixed <= 0
              /\ codec_sample.val * FixedScale >= One => codec_fixed > 0
              /\ codec_sample.val * FixedScale <= -One => codec_fixed < 0

C18_Witness ==
    /\ codec_fixed = -32768
    /\ ~codec_sample.nan
    /\ codec_sample.val < -One

\* the recorded (sample rate, channel count, channel layout) triple
RecordedFormat == <<m_sample_rate, m_channels, m_channel_config>>

\* C19: whenever an engine instance is live it is the bound one and the
\* recorded triple is the format of the buffer it was created for; every
\* buffer written to an engine has exactly the triple that engine was
\* created for; no live engine goes with a triple of another instance or
\* of no buffer.
C19_BoundToOneFormat ==
    /\ \A i \in EngineIds : engines[i].st = "live" =>
          /\ i = m_stream
          /\ engines[i].for_fmt = RecordedFormat
          /\ engines[i].for_fmt \in Formats
          /\ engines[i].srate = m_sample_rate
          /\ engines[i].channels = m_channels
    /\ (InOnChunk /\ call.written # nullptr) =>
          /\ engines[call.written].st = "live"
          /\ engines[call.written].for_fmt = FmtOf(chunk_in)
          /\ RecordedFormat = FmtOf(chunk_in)

C19_Witness ==
    /\ pc = "returned"
    /\ call.destroyed = 1
    /\ call.created = 2
    /\ call.written = 2
    /\ m_stream = 2
    /\ engines[2].for_fmt = RecordedFormat
    /\ call.prev_fmt # RecordedFormat
    /\ call.prev_fmt[1] = m_sample_rate
    /\ Len(call.reads) > 0

\* C20: over any sequence of on_chunk, flush, on_endoftrack,
\* on_endofplayback and destruction: at most one engine instance is live and
\* it is the one m_stream names; a teardown with no live engine performs no
\* engine operation; no instance is destroyed twice, and none is written
\* to, read from or flushed after it was destroyed; once the adapter is
\* destroyed every instance it created has been destroyed exactly once.
C20_HandleSafety ==
    /\ []( /\ Cardinality({ i \in EngineIds : engines[i].st = "live" }) <= 1
           /\ \A i \in EngineIds :
                 /\ engines[i].st \in {"none", "live", "destroyed"}
                 /\ engines[i].st = "live" => i = m_stream
                 /\ engines[i].st # "live" =>
                       engines[i] = [NoEngine EXCEPT !.st = engines[i].st]
           /\ m_stream # nullptr => engines[m_stream].st = "live"
           /\ pc \in {"drain", "eop_drain"} => m_stream # nullptr
           /\ InOnChunk =>
                 /\ call.written # nullptr =>
                       engines[call.written].st = "live"
                 /\ call.entry_stream = nullptr => call.destroyed = nullptr
                 /\ call.destroyed # nullptr =>
                       /\ call.destroyed = call.entry_stream
                       /\ call.destroyed # call.written
                       /\ engines[call.destroyed].st = "destroyed"
           /\ pc = "destroyed" =>
                 /\ m_stream = nullptr
                 /\ \A i \in EngineIds :
                       engines[i].st \in {"none", "destroyed"} )
    /\ [][ (m_stream = nullptr /\ last_op' \in {"flush", "dtor"}) =>
             (engines' = engines /\ m_stream' = nullptr) ]_vars

C20_Witness ==
    /\ pc = "destroyed"
    /\ last_op = "dtor"
    /\ engines[1].st = "destroyed"
    /\ engines[2].st = "destroyed"
    /\ m_stream = nullptr
    /\ m_sample_rate > 0

====
